---- MODULE Spec2Model ----
(***************************************************************************)
(* Nikon R8/R10 EA-1 remote control replacement (ATtiny85): the NEC        *)
(* infrared decoder, the command dispatcher with its learn mode, the       *)
(* Timer1 intervalometer and the relay sequences, modelled from the        *)
(* current sketch src/Nikon_R_EA-1-RC-Intervalometer.ino (lines 271-650;   *)
(* lines 1-268 of that file hold the first revision of the sketch) and,    *)
(* where it differs, from the earlier revision with learn mode kept in     *)
(* src/Nikon_R_EA-1-RC-Intervalometer/Nikon_R_EA-1-RC-Intervalometer.ino   *)
(* (rev = "middle": setup, ReceivedCode and loop differ, the interrupt     *)
(* handlers and the relay sequences are the same).                         *)
(*                                                                         *)
(* Every interrupt handler runs to completion with interrupts disabled,    *)
(* so a handler is one atomic step.  loop() is the only preemptible code   *)
(* and is split where an interrupt can change what it reads or writes.     *)
(* The handlers are written as functions from a state record to a state    *)
(* record, composed in the order of the C statements; an action applies    *)
(* one handler to the current state.                                       *)
(***************************************************************************)
EXTENDS Integers, Sequences, FiniteSets, TLC

VARIABLES
    rev,               \* the sketch that runs: "latest" or "middle"
    pin,               \* level of the output pins PB0, PB1, PB3, PB4
    irBits,            \* 32 = waiting for the AGC leader, 0..31 = next bit
    receivedData,      \* unsigned long receive buffer, as its low and high 16 bit words
    oldIntervalStep,   \* byte
    newIntervalStep,   \* byte
    postscaler,        \* int (16 bit)
    divider,           \* int (16 bit)
    OCR1C,             \* Timer1 compare register (period)
    OCR1A,             \* Timer1 compare register (interrupt)
    OCIE1A,            \* TIMSK bit: Timer1 compare interrupt enabled
    lmMode,
    blinkFlag,
    aluRemote,
    justBooted,
    learnMode,
    learnedIr,         \* learnedIrRcCode and the seven learnedIr...Key
    eeprom,            \* the struct RC stored at EEPROM offset 0
    loopPc,            \* position of loop(): "poll", "led", or "blink1".."blink3"
    preempted,         \* interrupts taken since loop() left "poll"
    isr,               \* the handler that made the last step
    dispatch,          \* ReceivedCode call of the last step: none, frame, repeat
    cmd,               \* branch ReceivedCode took in the last step
    ops,               \* routines the last step called, in call order
    writes,            \* digitalWrite calls of the last step, in order
    runOpen,           \* history: startRunWithMetering ran after the last stopRun
    metersSinceStop,   \* history: meterOnce calls since the last stopRun
    stage,             \* history: none, staged (step command), applied (ISR ran since)
    idleTicks,         \* history: compare interrupts without singleFrame in a row
    session,           \* history: none, stored (a learn session wrote the record),
                       \*          reloaded (setup has loaded that record since)
    boots              \* history: power cycles so far

vars == <<rev, pin, irBits, receivedData, oldIntervalStep, newIntervalStep, postscaler,
          divider, OCR1C, OCR1A, OCIE1A, lmMode, blinkFlag, aluRemote, justBooted,
          learnMode, learnedIr, eeprom, loopPc, preempted, isr, dispatch, cmd, ops, writes,
          runOpen, metersSinceStop, stage, idleTicks, session, boots>>

(***************************************************************************)
(* Program constants                                                       *)
(***************************************************************************)
appleIrRcCode == 34798
appleIrPlayKey == 47
appleIrOneFrameKey == 46
appleIrIntervalKey == 1
appleIrFasterKey == 5
appleIrSlowerKey == 6
appleIrDoubleSpeedKey == 4
appleIrHalfSpeedKey == 3
appleIrWhitePlayKey == 2
LM_MODE_1ST_SINGLESHOT == 1
LM_MODE_SUB_SINGLESHOT == 2
lightmeterPin == 3
startPin == 4
loadPin == 1
holdPin == 0
ledPin == 1
LOW == 0
HIGH == 1
\* 0xFFFF marks a learned key that is not filled yet
Unfilled == 65535

Pins == {holdPin, loadPin, lightmeterPin, startPin, ledPin}

(***************************************************************************)
(* C arithmetic on the target (int is 16 bit, byte is 8 bit)               *)
(***************************************************************************)
ToByte(x) == x % 256
ToUInt16(x) == x % 65536
ToInt16(x) == LET u == x % 65536 IN IF u >= 32768 THEN u - 65536 ELSE u
FitsInt16(x) == x >= -32768 /\ x <= 32767
Abs(x) == IF x < 0 THEN -x ELSE x
\* C division and remainder truncate toward zero
CDiv(a, b) == IF (a < 0) = (b < 0) THEN Abs(a) \div Abs(b) ELSE -(Abs(a) \div Abs(b))
CMod(a, b) == a - b * CDiv(a, b)
\* An unsigned long is kept as its two 16 bit words [lo, hi]
Long(lo, hi) == [lo |-> lo, hi |-> hi]
WordBit(w, i) == (w \div (2 ^ i)) % 2
BitAt(x, i) == IF i < 16 THEN WordBit(x.lo, i) ELSE WordBit(x.hi, i - 16)
\* x | (1UL << i)
OrBit(x, i) ==
    IF BitAt(x, i) = 1 THEN x
    ELSE IF i < 16 THEN [x EXCEPT !.lo = @ + 2 ^ i]
    ELSE [x EXCEPT !.hi = @ + 2 ^ (i - 16)]
\* (x >> n) & mask for 16 <= n, mask + 1 a power of two
ShiftMask(x, n, mask) == (x.hi \div (2 ^ (n - 16))) % (mask + 1)
\* Arduino's constrain macro
constrain(amt, low, high) == IF amt < low THEN low ELSE IF amt > high THEN high ELSE amt

(***************************************************************************)
(* Pin access and the log of the running handler                           *)
(***************************************************************************)
digitalWrite(s, p, v) == [s EXCEPT !.pin[p] = v, !.writes = Append(@, <<p, v>>)]
digitalRead(s, p) == s.pin[p]
Call(s, name) == [s EXCEPT !.ops = Append(@, name)]
Enter(s) == [s EXCEPT !.ops = <<>>, !.writes = <<>>, !.dispatch = "none", !.cmd = "none"]

(***************************************************************************)
(* Relay and indicator sequences (the delays take no part in the state)    *)
(***************************************************************************)
blinkLED(s) ==
    LET a == Call(s, "blinkLED")
        b == digitalWrite(a, ledPin, HIGH)
    IN  digitalWrite(b, ledPin, LOW)

blinkLEDtwice(s) ==
    LET a == Call(s, "blinkLEDtwice")
        b == digitalWrite(a, ledPin, HIGH)
        c == digitalWrite(b, ledPin, LOW)
        d == digitalWrite(c, ledPin, HIGH)
    IN  digitalWrite(d, ledPin, LOW)

startRunWithMetering(s) ==
    LET a == Call(s, "startRunWithMetering")
        b == digitalWrite(a, lightmeterPin, HIGH)
        c == digitalWrite(b, holdPin, HIGH)
        d == digitalWrite(c, loadPin, HIGH)
        e == digitalWrite(d, loadPin, LOW)
    IN  digitalWrite(e, startPin, HIGH)

stopRun(s) ==
    LET a == Call(s, "stopRun")
        b == digitalWrite(a, startPin, LOW)
        c == digitalWrite(b, holdPin, LOW)
        d == digitalWrite(c, lightmeterPin, LOW)
        e == digitalWrite(d, ledPin, HIGH)
        f == digitalWrite(e, ledPin, LOW)
    IN  [f EXCEPT !.lmMode = LM_MODE_1ST_SINGLESHOT]

meterOnce_keepsMode(s) ==
    LET a == Call(s, "meterOnce")
        b == digitalWrite(a, lightmeterPin, HIGH)
        c == digitalWrite(b, ledPin, HIGH)
        d == digitalWrite(c, ledPin, LOW)
    IN  digitalWrite(d, lightmeterPin, LOW)

meterOnce(s) ==
    LET a == Call(s, "meterOnce")
        b == digitalWrite(a, lightmeterPin, HIGH)
        c == digitalWrite(b, ledPin, HIGH)
        d == digitalWrite(c, ledPin, LOW)
        e == digitalWrite(d, lightmeterPin, LOW)
    IN  [e EXCEPT !.lmMode = LM_MODE_SUB_SINGLESHOT]

singleFrame_loadsAfterStart(s) ==
    LET a == Call(s, "singleFrame")
        b == digitalWrite(a, startPin, HIGH)
        c == digitalWrite(b, startPin, LOW)
        d == digitalWrite(c, loadPin, HIGH)
    IN  digitalWrite(d, loadPin, LOW)

singleFrame(s) ==
    LET a == Call(s, "singleFrame")
        b == digitalWrite(a, loadPin, HIGH)
        c == digitalWrite(b, loadPin, LOW)
        d == digitalWrite(c, startPin, HIGH)
        e == digitalWrite(d, startPin, LOW)
        f == digitalWrite(e, loadPin, HIGH)
    IN  digitalWrite(f, loadPin, LOW)

(***************************************************************************)
(* setup(): the state after power-up, loaded from the stored record        *)
(***************************************************************************)
\* the initialisers of the globals and the profile read by EEPROM.get; both
\* revisions of setup start with these
PowerUp(e, r) ==
             [ rev |-> r,
               pin |-> [p \in Pins |-> LOW],
               irBits |-> 32,
               receivedData |-> Long(0, 0),
               oldIntervalStep |-> 31,
               newIntervalStep |-> 31,
               postscaler |-> 2,
               divider |-> 0,
               OCR1C |-> 31,
               OCR1A |-> 31,
               OCIE1A |-> FALSE,
               lmMode |-> LM_MODE_1ST_SINGLESHOT,
               blinkFlag |-> TRUE,
               aluRemote |-> FALSE,
               justBooted |-> TRUE,
               learnMode |-> FALSE,
               learnedIr |-> [ RcCode |-> ToUInt16(e.RcCode),
                               PlayKey |-> e.PlayKey,
                               OneFrameKey |-> e.OneFrameKey,
                               IntervalKey |-> e.IntervalKey,
                               FasterKey |-> e.FasterKey,
                               SlowerKey |-> e.SlowerKey,
                               DoubleSpeedKey |-> e.DoubleSpeedKey,
                               HalfSpeedKey |-> e.HalfSpeedKey ],
               eeprom |-> e,
               dispatch |-> "none",
               cmd |-> "none",
               ops |-> <<>>,
               writes |-> <<>> ]

setup_enablesCompare(e) ==
    [digitalWrite(PowerUp(e, "latest"), ledPin, HIGH) EXCEPT !.OCIE1A = TRUE]

\* setup() of the current sketch ends with the indicator on
setup(e) ==
    digitalWrite(PowerUp(e, "latest"), ledPin, HIGH)

\* setup() of the earlier revision leaves the indicator off
setupMid(e) ==
    PowerUp(e, "middle")

(***************************************************************************)
(* ReceivedCode: learn mode                                                 *)
(***************************************************************************)
\* receivedData>>16 & 0xFF and receivedData & 0xFFFF
CommandByte(data) == ShiftMask(data, 16, 255)
Address(data) == data.lo

LearnStart_keepsKeys(s, addr) ==
    LET a == blinkLEDtwice([s EXCEPT !.cmd = "learnStart", !.learnedIr.RcCode = addr])
    IN  [a EXCEPT !.learnMode = TRUE]

LearnStart_persists(s, addr) ==
    LET l == [ RcCode |-> addr, PlayKey |-> Unfilled, OneFrameKey |-> Unfilled,
               IntervalKey |-> Unfilled, FasterKey |-> Unfilled, SlowerKey |-> Unfilled,
               DoubleSpeedKey |-> Unfilled, HalfSpeedKey |-> Unfilled ]
        a == blinkLEDtwice([s EXCEPT !.cmd = "learnStart", !.learnedIr = l])
    IN  [a EXCEPT !.learnMode = TRUE,
                  !.eeprom = [ RcCode |-> ToInt16(addr), PlayKey |-> 255,
                               OneFrameKey |-> 255, IntervalKey |-> 255,
                               FasterKey |-> 255, SlowerKey |-> 255,
                               DoubleSpeedKey |-> 255, HalfSpeedKey |-> 255 ]]

LearnStart(s, addr) ==
    LET a == [s EXCEPT !.cmd = "learnStart",
                       !.learnedIr = [ RcCode |-> addr,
                                       PlayKey |-> Unfilled,
                                       OneFrameKey |-> Unfilled,
                                       IntervalKey |-> Unfilled,
                                       FasterKey |-> Unfilled,
                                       SlowerKey |-> Unfilled,
                                       DoubleSpeedKey |-> Unfilled,
                                       HalfSpeedKey |-> Unfilled ]]
        b == blinkLEDtwice(a)
    IN  [b EXCEPT !.learnMode = TRUE]

\* the struct RC written by EEPROM.put: int RcCode and seven byte keys
StoredRecord(l) ==
    [ RcCode |-> ToInt16(l.RcCode),
      PlayKey |-> ToByte(l.PlayKey),
      OneFrameKey |-> ToByte(l.OneFrameKey),
      IntervalKey |-> ToByte(l.IntervalKey),
      FasterKey |-> ToByte(l.FasterKey),
      SlowerKey |-> ToByte(l.SlowerKey),
      DoubleSpeedKey |-> ToByte(l.DoubleSpeedKey),
      HalfSpeedKey |-> ToByte(l.HalfSpeedKey) ]

LearnLastKey(s, key) ==
    LET a == [s EXCEPT !.cmd = "learnDone", !.learnedIr.HalfSpeedKey = key]
        b == [a EXCEPT !.eeprom = StoredRecord(a.learnedIr)]
        c == blinkLEDtwice(blinkLEDtwice(blinkLEDtwice(blinkLEDtwice(blinkLEDtwice(b)))))
    IN  [c EXCEPT !.learnMode = FALSE]

LearnKey_actsOnKey(s, addr, key, Repeat) ==
    IF addr = s.learnedIr.RcCode /\ ~Repeat
    THEN LET a == [blinkLEDtwice(s) EXCEPT !.cmd = "learnKey"]
         IN  singleFrame([a EXCEPT !.learnedIr.PlayKey = key])
    ELSE [s EXCEPT !.cmd = "learnIgnored"]

LearnKey(s, addr, key, Repeat) ==
    IF addr = s.learnedIr.RcCode /\ ~Repeat
    THEN LET a == [blinkLEDtwice(s) EXCEPT !.cmd = "learnKey"]
             l == a.learnedIr
         IN  IF l.PlayKey = Unfilled THEN [a EXCEPT !.learnedIr.PlayKey = key]
             ELSE IF l.OneFrameKey = Unfilled THEN [a EXCEPT !.learnedIr.OneFrameKey = key]
             ELSE IF l.IntervalKey = Unfilled THEN [a EXCEPT !.learnedIr.IntervalKey = key]
             ELSE IF l.FasterKey = Unfilled THEN [a EXCEPT !.learnedIr.FasterKey = key]
             ELSE IF l.SlowerKey = Unfilled THEN [a EXCEPT !.learnedIr.SlowerKey = key]
             ELSE IF l.DoubleSpeedKey = Unfilled
                  THEN [a EXCEPT !.learnedIr.DoubleSpeedKey = key]
             ELSE IF l.HalfSpeedKey = Unfilled THEN LearnLastKey(a, key)
             ELSE [a EXCEPT !.cmd = "learnFull"]
    ELSE [s EXCEPT !.cmd = "learnIgnored"]

(***************************************************************************)
(* ReceivedCode: normal operation                                           *)
(***************************************************************************)
UnknownRemote_alwaysStart(s, key, Repeat) ==
    IF key # 255 /\ ~Repeat
    THEN startRunWithMetering(blinkLED([s EXCEPT !.cmd = "unknownToggle"]))
    ELSE [s EXCEPT !.cmd = "unknownRepeat"]

\* an unknown transmitter: any key toggles run and stop
UnknownRemote(s, key, Repeat) ==
    IF key # 255 /\ ~Repeat /\ digitalRead(s, lightmeterPin) = LOW
    THEN startRunWithMetering(blinkLED([s EXCEPT !.cmd = "unknownToggle"]))
    ELSE IF key # 255 /\ ~Repeat /\ digitalRead(s, lightmeterPin) # LOW
    THEN stopRun(blinkLED([s EXCEPT !.cmd = "unknownToggle"]))
    ELSE [s EXCEPT !.cmd = "unknownRepeat"]

PlayToggle_alwaysStart(s) ==
    startRunWithMetering(s)

\* the Play and WhitePlay branches: start when the lightmeter relay is off, else stop
PlayToggle(s) ==
    IF digitalRead(s, lightmeterPin) = LOW THEN startRunWithMetering(s) ELSE stopRun(s)

OneFrame(s) ==
    singleFrame(IF s.lmMode = LM_MODE_1ST_SINGLESHOT THEN meterOnce(s) ELSE s)

IntervalToggle_resetsPhase(s) ==
    [s EXCEPT !.OCIE1A = ~@, !.divider = 0]

IntervalToggle(s) ==
    [s EXCEPT !.OCIE1A = ~@]

Slower(s) ==
    LET a == [s EXCEPT !.oldIntervalStep = s.newIntervalStep]
    IN  [a EXCEPT !.newIntervalStep = ToByte(constrain(a.oldIntervalStep + 10, 1, 255))]

Faster(s) ==
    LET a == [s EXCEPT !.oldIntervalStep = s.newIntervalStep]
    IN  IF a.postscaler <= 4
        THEN [a EXCEPT !.newIntervalStep = ToByte(constrain(a.oldIntervalStep - 10, 11, 255))]
        ELSE [a EXCEPT !.newIntervalStep = ToByte(constrain(a.oldIntervalStep - 10, 1, 255))]

\* postscaler * 2 is an int product: beyond 32767 it overflows, which is undefined.
\* ub chooses what the build makes of it: "wrap" computes the product modulo 2^16
\* and runs the macro's tests on it; "fold" has the compiler assume no overflow, so
\* the low test becomes postscaler < 1 and the wrapped product is stored.  The
\* macro's high test compares an int with the long 32768 and never holds.
HalfSpeed(s, ub) ==
    LET product == s.postscaler * 2
        result == IF FitsInt16(product) \/ ub = "wrap"
                  THEN constrain(ToInt16(product), 1, 32768)
                  ELSE IF s.postscaler < 1 THEN 1 ELSE ToInt16(product)
    IN  [s EXCEPT !.postscaler = ToInt16(result)]

DoubleSpeed(s) ==
    LET a == [s EXCEPT !.postscaler = ToInt16(constrain(CDiv(s.postscaler, 2), 1, 32768))]
    IN  IF a.newIntervalStep < 11 /\ a.postscaler <= 4
        THEN [a EXCEPT !.newIntervalStep = 11]
        ELSE a

\* a learned remote or the Apple Remote
KnownRemote(s, Repeat, ub) ==
    LET addr == Address(s.receivedData)
        key == IF addr = appleIrRcCode
               THEN ShiftMask(s.receivedData, 17, 127)
               ELSE CommandByte(s.receivedData)
        l == s.learnedIr
        a == IF \/ (key = appleIrOneFrameKey /\ ~Repeat /\ addr = appleIrRcCode)
                \/ (key = appleIrPlayKey /\ ~Repeat /\ addr = appleIrRcCode)
             THEN [s EXCEPT !.aluRemote = TRUE]
             ELSE s
    IN  IF (key = appleIrPlayKey \/ key = l.PlayKey) /\ ~Repeat
        THEN PlayToggle([a EXCEPT !.cmd = "Play"])
        ELSE IF (key = appleIrOneFrameKey \/ key = l.OneFrameKey) /\ ~Repeat
        THEN OneFrame([a EXCEPT !.cmd = "SingleFrame"])
        ELSE IF (key = appleIrIntervalKey \/ key = l.IntervalKey) /\ ~Repeat
        THEN IntervalToggle([a EXCEPT !.cmd = "IntervalToggle"])
        ELSE IF (key = appleIrSlowerKey \/ key = l.SlowerKey) /\ ~Repeat
        THEN Slower([a EXCEPT !.cmd = "Slower"])
        ELSE IF (key = appleIrFasterKey \/ key = l.FasterKey) /\ ~Repeat
        THEN Faster([a EXCEPT !.cmd = "Faster"])
        ELSE IF (key = appleIrHalfSpeedKey \/ key = l.HalfSpeedKey) /\ ~Repeat
        THEN HalfSpeed([a EXCEPT !.cmd = "HalfSpeed"], ub)
        ELSE IF (key = appleIrDoubleSpeedKey \/ key = l.DoubleSpeedKey) /\ ~Repeat
        THEN DoubleSpeed([a EXCEPT !.cmd = "DoubleSpeed"])
        ELSE IF key = appleIrWhitePlayKey /\ ~Repeat /\ ~a.aluRemote
        THEN PlayToggle([a EXCEPT !.cmd = "WhitePlay"])
        ELSE [a EXCEPT !.cmd = "unmapped", !.blinkFlag = FALSE]

NormalOperation(s, Repeat, ub) ==
    LET addr == Address(s.receivedData)
        a == IF addr # s.learnedIr.RcCode /\ addr # appleIrRcCode
             THEN UnknownRemote(s, CommandByte(s.receivedData), Repeat)
             ELSE KnownRemote(s, Repeat, ub)
        b == IF a.blinkFlag THEN blinkLED(a) ELSE a
    IN  [b EXCEPT !.blinkFlag = TRUE]

ReceivedCode(s, Repeat, ub) ==
    LET a == [s EXCEPT !.dispatch = IF Repeat THEN "repeat" ELSE "frame"]
        byte == CommandByte(a.receivedData)
    IN  IF byte # 255 /\ byte # 0
        THEN IF a.justBooted /\ ~a.learnMode
             THEN LearnStart(a, Address(a.receivedData))
             ELSE IF a.learnMode
             THEN LearnKey(a, Address(a.receivedData), byte, Repeat)
             ELSE IF ~a.justBooted /\ ~a.learnMode
             THEN NormalOperation(a, Repeat, ub)
             ELSE a
        ELSE [a EXCEPT !.cmd = "garbage"]

(***************************************************************************)
(* ReceivedCode of the earlier revision: one profile, irRcCode and the     *)
(* seven ir...Key, here the fields of learnedIr; setup always loads it     *)
(* from the stored record                                                   *)
(***************************************************************************)
LearnLastKeyMid(s, key) ==
    LET a == [s EXCEPT !.cmd = "learnDone", !.learnedIr.HalfSpeedKey = key]
        b == [a EXCEPT !.eeprom = StoredRecord(a.learnedIr)]
        c == blinkLEDtwice(blinkLEDtwice(blinkLEDtwice(blinkLEDtwice(b))))
    IN  [c EXCEPT !.learnMode = FALSE]

\* the learn branch does not look at Repeat
LearnKeyMid(s, addr, key) ==
    IF addr = s.learnedIr.RcCode
    THEN LET a == [blinkLEDtwice(s) EXCEPT !.cmd = "learnKey"]
             l == a.learnedIr
         IN  IF l.PlayKey = Unfilled THEN [a EXCEPT !.learnedIr.PlayKey = key]
             ELSE IF l.OneFrameKey = Unfilled THEN [a EXCEPT !.learnedIr.OneFrameKey = key]
             ELSE IF l.IntervalKey = Unfilled THEN [a EXCEPT !.learnedIr.IntervalKey = key]
             ELSE IF l.FasterKey = Unfilled THEN [a EXCEPT !.learnedIr.FasterKey = key]
             ELSE IF l.SlowerKey = Unfilled THEN [a EXCEPT !.learnedIr.SlowerKey = key]
             ELSE IF l.DoubleSpeedKey = Unfilled
                  THEN [a EXCEPT !.learnedIr.DoubleSpeedKey = key]
             ELSE IF l.HalfSpeedKey = Unfilled THEN LearnLastKeyMid(a, key)
             ELSE [a EXCEPT !.cmd = "learnFull"]
    ELSE [s EXCEPT !.cmd = "learnIgnored"]

UnknownRemoteMid(s, key, Repeat) ==
    LET a == IF ~Repeat THEN blinkLED(s) ELSE s
    IN  IF key # 255 /\ ~Repeat /\ digitalRead(a, lightmeterPin) = LOW
        THEN startRunWithMetering([a EXCEPT !.cmd = "unknownToggle"])
        ELSE IF key # 255 /\ ~Repeat /\ digitalRead(a, lightmeterPin) # LOW
        THEN stopRun([a EXCEPT !.cmd = "unknownToggle"])
        ELSE [a EXCEPT !.cmd = "unknownRepeat"]

KnownRemoteMid(s, Repeat, ub) ==
    LET addr == Address(s.receivedData)
        key == IF addr = appleIrRcCode   \* written 0x87EE in this revision
               THEN ShiftMask(s.receivedData, 17, 127)
               ELSE CommandByte(s.receivedData)
        l == s.learnedIr
        a == IF \/ (key = l.OneFrameKey /\ ~Repeat /\ l.RcCode = appleIrRcCode)
                \/ (key = l.PlayKey /\ ~Repeat /\ l.RcCode = appleIrRcCode)
             THEN [s EXCEPT !.aluRemote = TRUE]
             ELSE s
    IN  IF key = l.PlayKey /\ ~Repeat
        THEN PlayToggle([a EXCEPT !.cmd = "Play"])
        ELSE IF key = l.OneFrameKey /\ ~Repeat
        THEN OneFrame([a EXCEPT !.cmd = "SingleFrame"])
        ELSE IF key = l.IntervalKey /\ ~Repeat
        THEN IntervalToggle([a EXCEPT !.cmd = "IntervalToggle"])
        ELSE IF key = l.SlowerKey /\ ~Repeat
        THEN Slower([a EXCEPT !.cmd = "Slower"])
        ELSE IF key = l.FasterKey /\ ~Repeat
        THEN Faster([a EXCEPT !.cmd = "Faster"])
        ELSE IF key = l.HalfSpeedKey /\ ~Repeat
        THEN HalfSpeed([a EXCEPT !.cmd = "HalfSpeed"], ub)
        ELSE IF key = l.DoubleSpeedKey /\ ~Repeat
        THEN DoubleSpeed([a EXCEPT !.cmd = "DoubleSpeed"])
        ELSE IF key = appleIrWhitePlayKey /\ ~Repeat /\ ~a.aluRemote
        THEN PlayToggle([a EXCEPT !.cmd = "WhitePlay"])
        ELSE [a EXCEPT !.cmd = "unmapped", !.blinkFlag = FALSE]

NormalOperationMid(s, Repeat, ub) ==
    LET a == IF Address(s.receivedData) # s.learnedIr.RcCode
             THEN UnknownRemoteMid(s, CommandByte(s.receivedData), Repeat)
             ELSE KnownRemoteMid(s, Repeat, ub)
        b == IF a.blinkFlag THEN blinkLED(a) ELSE a
    IN  [b EXCEPT !.blinkFlag = TRUE]

\* the guard against garbage is written with ||
ReceivedCodeMid(s, Repeat, ub) ==
    LET a == [s EXCEPT !.dispatch = IF Repeat THEN "repeat" ELSE "frame"]
        byte == CommandByte(a.receivedData)
    IN  IF byte # 255 \/ byte # 0
        THEN IF a.justBooted /\ ~a.learnMode
             THEN LearnStart(a, Address(a.receivedData))
             ELSE IF a.learnMode
             THEN LearnKeyMid(a, Address(a.receivedData), byte)
             ELSE IF ~a.justBooted /\ ~a.learnMode
             THEN NormalOperationMid(a, Repeat, ub)
             ELSE a
        ELSE [a EXCEPT !.cmd = "garbage"]

\* ReceivedCode of the sketch that runs
ReceivedCodeOf(s, Repeat, ub) ==
    IF s.rev = "middle" THEN ReceivedCodeMid(s, Repeat, ub) ELSE ReceivedCode(s, Repeat, ub)

(***************************************************************************)
(* The interrupt handlers and loop()                                       *)
(***************************************************************************)
INT0_vect_dispatchesBrokenFrame(s, timeStamp, overFlow, ub) ==
    LET a == Enter(s)
    IN  IF a.irBits = 32
        THEN IF timeStamp >= 194 /\ timeStamp <= 228 /\ overFlow = 0
             THEN [a EXCEPT !.receivedData = Long(0, 0), !.irBits = 0]
             ELSE IF timeStamp >= 159 /\ timeStamp <= 193 /\ overFlow = 0
             THEN ReceivedCodeOf(a, TRUE, ub)
             ELSE a
        ELSE IF timeStamp > 44 \/ overFlow # 0
             THEN [ReceivedCodeOf(a, FALSE, ub) EXCEPT !.irBits = 32]
             ELSE LET b == IF timeStamp > 26
                           THEN [a EXCEPT !.receivedData = OrBit(@, a.irBits)]
                           ELSE a
                      c == IF b.irBits = 31 THEN ReceivedCodeOf(b, FALSE, ub) ELSE b
                  IN  [c EXCEPT !.irBits = @ + 1]

INT0_vect_dispatchesEarly(s, timeStamp, overFlow, ub) ==
    LET a == Enter(s)
    IN  IF a.irBits = 32
        THEN IF timeStamp >= 194 /\ timeStamp <= 228 /\ overFlow = 0
             THEN [a EXCEPT !.receivedData = Long(0, 0), !.irBits = 0]
             ELSE IF timeStamp >= 159 /\ timeStamp <= 193 /\ overFlow = 0
             THEN ReceivedCodeOf(a, TRUE, ub)
             ELSE a
        ELSE IF timeStamp > 44 \/ overFlow # 0
             THEN [a EXCEPT !.irBits = 32]
             ELSE LET b == IF timeStamp > 26
                           THEN [a EXCEPT !.receivedData = OrBit(@, a.irBits)]
                           ELSE a
                      c == IF b.irBits >= 23 THEN ReceivedCodeOf(b, FALSE, ub) ELSE b
                  IN  [c EXCEPT !.irBits = @ + 1]

INT0_vect_ignoresTimeout(s, timeStamp, overFlow, ub) ==
    LET a == Enter(s)
    IN  IF a.irBits = 32
        THEN IF timeStamp >= 194 /\ timeStamp <= 228 /\ overFlow = 0
             THEN [a EXCEPT !.receivedData = Long(0, 0), !.irBits = 0]
             ELSE IF timeStamp >= 159 /\ timeStamp <= 193 /\ overFlow = 0
             THEN ReceivedCodeOf(a, TRUE, ub)
             ELSE a
        ELSE IF timeStamp > 44 \/ overFlow # 0
             THEN a
             ELSE LET b == IF timeStamp > 26
                           THEN [a EXCEPT !.receivedData = OrBit(@, a.irBits)]
                           ELSE a
                      c == IF b.irBits = 31 THEN ReceivedCodeOf(b, FALSE, ub) ELSE b
                  IN  [c EXCEPT !.irBits = @ + 1]

INT0_vect_keepsBuffer(s, timeStamp, overFlow, ub) ==
    LET a == Enter(s)
    IN  IF a.irBits = 32
        THEN IF timeStamp >= 194 /\ timeStamp <= 228 /\ overFlow = 0
             THEN [a EXCEPT !.irBits = 0]
             ELSE IF timeStamp >= 159 /\ timeStamp <= 193 /\ overFlow = 0
             THEN ReceivedCodeOf(a, TRUE, ub)
             ELSE a
        ELSE IF timeStamp > 44 \/ overFlow # 0
             THEN [a EXCEPT !.irBits = 32]
             ELSE LET b == IF timeStamp > 26
                           THEN [a EXCEPT !.receivedData = OrBit(@, a.irBits)]
                           ELSE a
                      c == IF b.irBits = 31 THEN ReceivedCodeOf(b, FALSE, ub) ELSE b
                  IN  [c EXCEPT !.irBits = @ + 1]

\* ISR(INT0_vect): a falling edge of the IR receiver; timeStamp is TCNT0, the
\* ticks since the last edge, and overFlow the counter's overflow flag
INT0_vect(s, timeStamp, overFlow, ub) ==
    LET a == Enter(s)
    IN  IF a.irBits = 32
        THEN IF timeStamp >= 194 /\ timeStamp <= 228 /\ overFlow = 0
             THEN [a EXCEPT !.receivedData = Long(0, 0), !.irBits = 0]
             ELSE IF timeStamp >= 159 /\ timeStamp <= 193 /\ overFlow = 0
             THEN ReceivedCodeOf(a, TRUE, ub)
             ELSE a
        ELSE IF timeStamp > 44 \/ overFlow # 0
             THEN [a EXCEPT !.irBits = 32]
             ELSE LET b == IF timeStamp > 26
                           THEN [a EXCEPT !.receivedData = OrBit(@, a.irBits)]
                           ELSE a
                      c == IF b.irBits = 31 THEN ReceivedCodeOf(b, FALSE, ub) ELSE b
                  IN  [c EXCEPT !.irBits = @ + 1]

\* ISR(TIMER1_COMPA_vect)
TIMER1_COMPA_vect(s) ==
    LET a == Enter(s)
        b == IF a.newIntervalStep # a.oldIntervalStep
             THEN [a EXCEPT !.OCR1C = a.newIntervalStep, !.OCR1A = a.newIntervalStep]
             ELSE a
        c == IF b.divider = 0 THEN singleFrame(b) ELSE b
        d == [c EXCEPT !.divider = ToInt16(@ + 1)]
    IN  [d EXCEPT !.divider = CMod(@, d.postscaler)]

loopExpire_staysBooted(s) ==
    Enter(s)

\* loop(), first half: the boot window has passed
loopExpire(s) ==
    [Enter(s) EXCEPT !.justBooted = FALSE]

\* loop(), second half: switch the indicator off unless a learn session runs
loopLed(s) ==
    LET a == Enter(s)
    IN  IF ~a.learnMode THEN digitalWrite(a, ledPin, LOW) ELSE a

\* loop() of the earlier revision, second half: blinkLEDtwice unless a learn
\* session runs.  It runs with interrupts enabled, so each of its four pin writes
\* is a step: loopBlink is the call and the first write, loopBlinkOn and
\* loopBlinkOff the writes after the delays
loopBlink(s) ==
    LET a == Enter(s)
    IN  IF ~a.learnMode THEN digitalWrite(Call(a, "blinkLEDtwice"), ledPin, HIGH) ELSE a

loopBlinkOff(s) ==
    digitalWrite(Enter(s), ledPin, LOW)

loopBlinkOn(s) ==
    digitalWrite(Enter(s), ledPin, HIGH)

(***************************************************************************)
(* The environment: stored records, infrared frames and their edge timing  *)
(***************************************************************************)
\* an erased EEPROM reads 0xFF in every byte
BlankRecord ==
    [ RcCode |-> ToInt16(65535), PlayKey |-> 255, OneFrameKey |-> 255,
      IntervalKey |-> 255, FasterKey |-> 255, SlowerKey |-> 255,
      DoubleSpeedKey |-> 255, HalfSpeedKey |-> 255 ]

\* a record left by an earlier learn session with the remote at address 0x4321;
\* its Play code 0x07 is also what the Apple Remote's key 0x07 decodes to
TrainedRecord ==
    [ RcCode |-> 17185, PlayKey |-> 7, OneFrameKey |-> 17,
      IntervalKey |-> 18, FasterKey |-> 19, SlowerKey |-> 20,
      DoubleSpeedKey |-> 21, HalfSpeedKey |-> 22 ]

\* a record whose learned Play code 0x02 is also the key code of the white Apple
\* Remote's Play key
ClashRecord ==
    [ RcCode |-> 17185, PlayKey |-> 2, OneFrameKey |-> 17,
      IntervalKey |-> 18, FasterKey |-> 19, SlowerKey |-> 20,
      DoubleSpeedKey |-> 21, HalfSpeedKey |-> 22 ]

StoredRecords == {BlankRecord, TrainedRecord}

\* a 32 bit NEC frame: address in the low 16 bits, then the command byte
Frame(addr, byte) == Long(addr, byte)
\* the Apple Remote sends its 7 bit key above a parity bit
AppleFrame(key) == Frame(appleIrRcCode, key * 2)

ApplePlay == AppleFrame(appleIrPlayKey)
AppleOneFrame == AppleFrame(appleIrOneFrameKey)
AppleInterval == AppleFrame(appleIrIntervalKey)
AppleFaster == AppleFrame(appleIrFasterKey)
AppleSlower == AppleFrame(appleIrSlowerKey)
AppleDoubleSpeed == AppleFrame(appleIrDoubleSpeedKey)
AppleHalfSpeed == AppleFrame(appleIrHalfSpeedKey)
AppleWhitePlay == AppleFrame(appleIrWhitePlayKey)
AppleOther == AppleFrame(7)
TrainedPlay == Frame(ToUInt16(TrainedRecord.RcCode), TrainedRecord.PlayKey)
TrainedOneFrame == Frame(ToUInt16(TrainedRecord.RcCode), TrainedRecord.OneFrameKey)
TrainedOther == Frame(ToUInt16(TrainedRecord.RcCode), 32)
ForeignFrame == Frame(255, 69)
GarbageFrame == Frame(65535, 255)

Revisions == {"latest", "middle"}

SpeedFrames == {AppleFaster, AppleSlower, AppleDoubleSpeed, AppleHalfSpeed}
SchedFrames == SpeedFrames \cup {AppleInterval}
Frames == { ApplePlay, AppleOneFrame, AppleInterval, AppleDoubleSpeed, AppleHalfSpeed,
            AppleWhitePlay, AppleOther, TrainedPlay, TrainedOneFrame, TrainedOther,
            ForeignFrame, GarbageFrame }

\* NEC timing in Timer0 ticks of 64 us: leader 13.5 ms, repeat 11.25 ms,
\* a one 2.25 ms, a zero 1.125 ms
LeaderTicks == 13500 \div 64
RepeatTicks == 11250 \div 64
OneTicks == 2250 \div 64
ZeroTicks == 1125 \div 64
FrameEdges(data) ==
    <<LeaderTicks>> \o [i \in 1..32 |-> IF BitAt(data, i - 1) = 1 THEN OneTicks ELSE ZeroTicks]

\* what the build makes of the signed overflow in HalfSpeed; the choice matters
\* only in a state where HalfSpeed would overflow
Overflows == IF FitsInt16(postscaler * 2) THEN {"wrap"} ELSE {"wrap", "fold"}

(***************************************************************************)
(* Bounds                                                                  *)
(***************************************************************************)
\* interrupts that fit between the two halves of loop(), which are a few
\* instructions apart
MaxPreempt == 1
\* Spec: the operator keeps the postscaler within MaxPostscaler
MaxPostscaler == 2
\* SpecSched: the operator keeps the staged step within MaxStepSched and the
\* postscaler within MaxPostscalerSched
MaxStepSched == 41
MaxPostscalerSched == 8
\* SpecLearn: power cycles after the first power-up, and the power-ups (counted
\* from the first) in whose boot window frames arrive
MaxBoots == 1
MaxLearnBoots == 1

(***************************************************************************)
(* Actions                                                                 *)
(***************************************************************************)
State ==
    [ rev |-> rev, pin |-> pin, irBits |-> irBits, receivedData |-> receivedData,
      oldIntervalStep |-> oldIntervalStep, newIntervalStep |-> newIntervalStep,
      postscaler |-> postscaler, divider |-> divider, OCR1C |-> OCR1C, OCR1A |-> OCR1A,
      OCIE1A |-> OCIE1A, lmMode |-> lmMode, blinkFlag |-> blinkFlag,
      aluRemote |-> aluRemote, justBooted |-> justBooted, learnMode |-> learnMode,
      learnedIr |-> learnedIr, eeprom |-> eeprom, dispatch |-> dispatch, cmd |-> cmd,
      ops |-> ops, writes |-> writes ]

Called(t, name) == \E i \in 1..Len(t.ops) : t.ops[i] = name
Calls(t, name) == Cardinality({i \in 1..Len(t.ops) : t.ops[i] = name})

\* the history variables after handler h has taken the state to t
History(t, h) ==
    /\ runOpen' = IF Called(t, "stopRun") THEN FALSE
                  ELSE IF Called(t, "startRunWithMetering") THEN TRUE
                  ELSE runOpen
    /\ metersSinceStop' = IF Called(t, "stopRun") THEN 0
                          ELSE IF metersSinceStop + Calls(t, "meterOnce") >= 2 THEN 2
                          ELSE metersSinceStop + Calls(t, "meterOnce")
    /\ stage' = IF t.cmd \in {"Faster", "Slower", "DoubleSpeed"} THEN "staged"
                ELSE IF h = "TIMER1_COMPA" /\ stage = "staged" THEN "applied"
                ELSE stage
    /\ idleTicks' = IF t.postscaler # postscaler THEN 0
                    ELSE IF h # "TIMER1_COMPA" THEN idleTicks
                    ELSE IF Called(t, "singleFrame") THEN 0
                    ELSE idleTicks + 1
    /\ session' = IF t.cmd = "learnDone" THEN "stored" ELSE session
    /\ boots' = boots

\* the program's state becomes t
Assign(t) ==
    /\ rev' = t.rev
    /\ pin' = t.pin
    /\ irBits' = t.irBits
    /\ receivedData' = t.receivedData
    /\ oldIntervalStep' = t.oldIntervalStep
    /\ newIntervalStep' = t.newIntervalStep
    /\ postscaler' = t.postscaler
    /\ divider' = t.divider
    /\ OCR1C' = t.OCR1C
    /\ OCR1A' = t.OCR1A
    /\ OCIE1A' = t.OCIE1A
    /\ lmMode' = t.lmMode
    /\ blinkFlag' = t.blinkFlag
    /\ aluRemote' = t.aluRemote
    /\ justBooted' = t.justBooted
    /\ learnMode' = t.learnMode
    /\ learnedIr' = t.learnedIr
    /\ eeprom' = t.eeprom
    /\ dispatch' = t.dispatch
    /\ cmd' = t.cmd
    /\ ops' = t.ops
    /\ writes' = t.writes

\* handler h has taken the state to t
Commit(t, h) ==
    /\ Assign(t)
    /\ isr' = h
    /\ History(t, h)

\* an interrupt preempts loop(): anywhere in its polling, and at most MaxPreempt
\* times between the end of the boot window and the end of that pass of loop()
Preempt ==
    /\ loopPc # "poll" => preempted < MaxPreempt
    /\ preempted' = IF loopPc # "poll" THEN preempted + 1 ELSE preempted
    /\ UNCHANGED loopPc

RECURSIVE Edges(_, _, _)
\* the edge handler run once for each gap of ticks, in order
Edges(s, ticks, ub) ==
    IF ticks = <<>> THEN s
    ELSE LET t == INT0_vect(s, Head(ticks), 0, ub)
         IN  IF t.irBits \in 0..32 THEN Edges(t, Tail(ticks), ub) ELSE t

\* A whole frame: the leader edge and the 32 data edges of data, each handled by
\* INT0_vect.  The first 32 of these handler runs touch irBits and receivedData
\* only, which no other handler reads, so they commute with the timer handler and
\* with loop() and are taken together with the 33rd, which dispatches.
IrFrame(data, ub) ==
    /\ irBits = 32
    /\ Preempt
    /\ Commit(Edges(State, FrameEdges(data), ub), "INT0")

\* an edge at the repeat distance after a frame
IrRepeat(ub) ==
    /\ irBits = 32
    /\ Preempt
    /\ Commit(INT0_vect(State, RepeatTicks, 0, ub), "INT0")

\* the compare interrupt, taken when TIMSK enables it
TimerCompare ==
    /\ OCIE1A
    /\ Preempt
    /\ Commit(TIMER1_COMPA_vect(State), "TIMER1_COMPA")

\* loop() finds the boot window over
LoopExpire ==
    /\ loopPc = "poll"
    /\ justBooted
    /\ Commit(loopExpire(State), "loop")
    /\ loopPc' = "led"
    /\ UNCHANGED preempted

LoopLed ==
    /\ loopPc = "led"
    /\ rev = "latest"
    /\ Commit(loopLed(State), "loop")
    /\ loopPc' = "poll"
    /\ preempted' = 0

\* the earlier revision: loop() calls blinkLEDtwice, or skips it in a learn session
LoopBlink ==
    /\ loopPc = "led"
    /\ rev = "middle"
    /\ Commit(loopBlink(State), "loop")
    /\ loopPc' = IF learnMode THEN "poll" ELSE "blink1"
    /\ preempted' = IF learnMode THEN 0 ELSE preempted

\* the second, third and fourth pin write of that blinkLEDtwice
LoopBlinkStep ==
    /\ loopPc \in {"blink1", "blink2", "blink3"}
    /\ Commit(IF loopPc = "blink2" THEN loopBlinkOn(State) ELSE loopBlinkOff(State), "loop")
    /\ loopPc' = CASE loopPc = "blink1" -> "blink2"
                   [] loopPc = "blink2" -> "blink3"
                   [] OTHER -> "poll"
    /\ preempted' = IF loopPc = "blink3" THEN 0 ELSE preempted

\* setup() of the sketch that runs
setupOf(r, e) ==
    IF r = "middle" THEN setupMid(e) ELSE setup(e)

\* power is cut and restored, or the controller is reset: every pin and global
\* starts over and setup() loads the stored record
PowerCycle ==
    /\ boots < MaxBoots
    /\ Assign(setupOf(rev, eeprom))
    /\ isr' = "setup"
    /\ loopPc' = "poll"
    /\ preempted' = 0
    /\ runOpen' = FALSE
    /\ metersSinceStop' = 0
    /\ stage' = "none"
    /\ idleTicks' = 0
    /\ session' = IF session = "stored" THEN "reloaded" ELSE session
    /\ boots' = boots + 1

\* the state when setup() has returned t
Started(t) ==
    /\ rev = t.rev
    /\ pin = t.pin
    /\ irBits = t.irBits
    /\ receivedData = t.receivedData
    /\ oldIntervalStep = t.oldIntervalStep
    /\ newIntervalStep = t.newIntervalStep
    /\ postscaler = t.postscaler
    /\ divider = t.divider
    /\ OCR1C = t.OCR1C
    /\ OCR1A = t.OCR1A
    /\ OCIE1A = t.OCIE1A
    /\ lmMode = t.lmMode
    /\ blinkFlag = t.blinkFlag
    /\ aluRemote = t.aluRemote
    /\ justBooted = t.justBooted
    /\ learnMode = t.learnMode
    /\ learnedIr = t.learnedIr
    /\ eeprom = t.eeprom
    /\ dispatch = t.dispatch
    /\ cmd = t.cmd
    /\ ops = t.ops
    /\ writes = t.writes
    /\ loopPc = "poll"
    /\ preempted = 0
    /\ isr = "setup"
    /\ runOpen = FALSE
    /\ metersSinceStop = 0
    /\ stage = "none"
    /\ idleTicks = 0
    /\ session = "none"
    /\ boots = 0

\* the current sketch after power-up
Init ==
    \E e \in StoredRecords : Started(setup(e))

\* either revision after power-up
InitRev ==
    \E e \in StoredRecords, r \in Revisions : Started(setupOf(r, e))

\* the operator's Slower and HalfSpeed keys stay within the given step and postscaler
InRange(data, maxStep, maxPost) ==
    /\ data = AppleSlower => newIntervalStep + 10 <= maxStep
    /\ data = AppleHalfSpeed => postscaler * 2 <= maxPost

(***************************************************************************)
(* Spec: normal operation with every kind of remote: the relay sequences, *)
(* the lightmeter mode, the intervalometer and its postscaler.  No frame  *)
(* arrives during the boot window, so no learn session starts, and the     *)
(* step keys (Faster, Slower) are left to SpecSched.                       *)
(***************************************************************************)
Frame1 ==
    \E data \in Frames, ub \in Overflows :
        /\ ~justBooted
        /\ InRange(data, 255, MaxPostscaler)
        /\ IrFrame(data, ub)

Repeat1 ==
    \E ub \in Overflows : ~justBooted /\ IrRepeat(ub)

Next == Frame1 \/ Repeat1 \/ TimerCompare \/ LoopExpire \/ LoopLed

Spec == Init /\ [][Next]_vars

(***************************************************************************)
(* SpecSched: the intervalometer.  The Apple Remote's speed keys and Menu  *)
(* key and the compare interrupt, in every order.                          *)
(***************************************************************************)
FrameSched ==
    \E data \in SchedFrames, ub \in Overflows :
        /\ ~justBooted
        /\ InRange(data, MaxStepSched, MaxPostscalerSched)
        /\ IrFrame(data, ub)

NextSched == FrameSched \/ TimerCompare \/ LoopExpire \/ LoopLed

SpecSched == Init /\ [][NextSched]_vars

(***************************************************************************)
(* SpecSpeed: the speed keys alone, over the whole range of the staged     *)
(* step and of the postscaler.                                             *)
(***************************************************************************)
FrameSpeed ==
    \E data \in SpeedFrames, ub \in Overflows :
        /\ ~justBooted
        /\ IrFrame(data, ub)

NextSpeed == FrameSpeed \/ LoopExpire \/ LoopLed

SpecSpeed == Init /\ [][NextSpeed]_vars

(***************************************************************************)
(* SpecLearn: the boot window, learn sessions, the stored record and power *)
(* cycles, for both revisions.  Frames arrive at any time: two keys of the  *)
(* Apple Remote, a key of a third transmitter, and a frame with an         *)
(* unusable command byte.                                                  *)
(***************************************************************************)
LearnFrames == {ApplePlay, AppleFaster, ForeignFrame, GarbageFrame}

\* frames reach the receiver in the boot window of the first MaxLearnBoots power-ups
InBootRange == justBooted => boots < MaxLearnBoots

\* in a learn session the operator presses the Up key as the first key or not at all
InSessionRange(data) == (learnMode /\ data = AppleFaster) => learnedIr.PlayKey = Unfilled

FrameLearn ==
    \E data \in LearnFrames, ub \in Overflows :
        /\ InBootRange
        /\ InSessionRange(data)
        /\ IrFrame(data, ub)

RepeatLearn ==
    \E ub \in Overflows : InBootRange /\ IrRepeat(ub)

NextLearn ==
    \/ FrameLearn
    \/ RepeatLearn
    \/ LoopExpire
    \/ LoopLed
    \/ LoopBlink
    \/ LoopBlinkStep
    \/ PowerCycle

SpecLearn == InitRev /\ [][NextLearn]_vars

\* loop() is the main program: it runs again whenever no handler runs, and the
\* time it compares with the boot window keeps advancing
SpecLearnFair == SpecLearn /\ WF_vars(LoopExpire)

(***************************************************************************)
(* SpecLatch: the current sketch with both Apple Remotes in use, the       *)
(* aluminium one (Play, centre key) and the white one (Play), over power   *)
(* cycles, with no profile stored or with one that uses the code 0x02.     *)
(***************************************************************************)
LatchFrames == {ApplePlay, AppleOneFrame, AppleWhitePlay}

InitLatch ==
    \E e \in {BlankRecord, ClashRecord} : Started(setup(e))

FrameLatch ==
    \E data \in LatchFrames, ub \in Overflows : ~justBooted /\ IrFrame(data, ub)

RepeatLatch ==
    \E ub \in Overflows : ~justBooted /\ IrRepeat(ub)

NextLatch == FrameLatch \/ RepeatLatch \/ LoopExpire \/ LoopLed \/ PowerCycle

SpecLatch == InitLatch /\ [][NextLatch]_vars

(***************************************************************************)
(* SpecSession: learn sessions next to interval shooting.  The Play and    *)
(* Menu key of the Apple Remote in boot window, learn session and normal   *)
(* operation, the compare interrupt, and power cycles.                     *)
(***************************************************************************)
SessionFrames == {ApplePlay, AppleInterval}

\* the keys learned in a session: the Menu key as the first of them at most
InSessionOrder(data) ==
    (learnMode /\ data # ApplePlay) => learnedIr.PlayKey = Unfilled

FrameSession ==
    \E data \in SessionFrames, ub \in Overflows :
        InSessionOrder(data) /\ IrFrame(data, ub)

RepeatSession ==
    \E ub \in Overflows : IrRepeat(ub)

NextSession ==
    FrameSession \/ RepeatSession \/ TimerCompare \/ LoopExpire \/ LoopLed \/ PowerCycle

SpecSession == Init /\ [][NextSession]_vars

(***************************************************************************)
(* SpecEdge: the decoder edge by edge.  Every falling edge is a step of    *)
(* its own, with the tick count and the overflow flag the handler finds,   *)
(* in boot window, learn session, run and interval shooting.               *)
(***************************************************************************)
\* the frames whose bits the edges spell
EdgeFrames == {ApplePlay, AppleInterval}
\* tick counts around the leader and repeat windows and around the bit thresholds
LeaderWindow == 194..228
EdgeTicks == {158, 159, RepeatTicks, 193, 194, LeaderTicks, 228, 229}
                 \cup {ZeroTicks, 26, 27, OneTicks, 44, 45}
\* TIFR & 1 << TOV0: Timer0 has overflowed since the last edge, or has not
OverflowFlags == {0, 2}

\* the low n bits of x are those of d
Prefix(x, d, n) == \A i \in 0..(n - 1) : BitAt(x, i) = BitAt(d, i)
\* the bits received so far, and a frame that is completed, belong to EdgeFrames;
\* a repeat code is dispatched with whatever the buffer holds
InFrameRange(t) ==
    IF t.irBits = 32
    THEN t.dispatch = "frame" => t.receivedData \in EdgeFrames
    ELSE \E d \in EdgeFrames : Prefix(t.receivedData, d, t.irBits)
\* a learn session gets as far as its first key
InLearnRange(t) == t.learnMode => t.learnedIr.OneFrameKey = Unfilled

\* one falling edge, timeStamp ticks after the last one
EdgeAt(timeStamp, overFlow) ==
    \E ub \in Overflows :
        LET t == INT0_vect(State, timeStamp, overFlow, ub)
        IN  /\ InFrameRange(t) /\ InLearnRange(t)
            /\ Preempt
            /\ Commit(t, "INT0")

Edge ==
    \E timeStamp \in EdgeTicks, overFlow \in OverflowFlags : EdgeAt(timeStamp, overFlow)

NextEdge == Edge \/ TimerCompare \/ LoopExpire \/ LoopLed

SpecEdge == Init /\ [][NextEdge]_vars

(***************************************************************************)
(* Vocabulary of the properties                                            *)
(***************************************************************************)
Normal == ~justBooted /\ ~learnMode
Usable(data) == CommandByte(data) # 255 /\ CommandByte(data) # 0
Known(data) == Address(data) = learnedIr.RcCode \/ Address(data) = appleIrRcCode
KeyOf(data) ==
    IF Address(data) = appleIrRcCode THEN ShiftMask(data, 17, 127) ELSE CommandByte(data)
\* a frame of a known remote carrying the default or the learned code of a command
Carries(data, appleKey, learnedKey) ==
    Usable(data) /\ Known(data) /\ (KeyOf(data) = appleKey \/ KeyOf(data) = learnedKey)
PlayFrame(data) == Carries(data, appleIrPlayKey, learnedIr.PlayKey)
OneFrameFrame(data) ==
    Carries(data, appleIrOneFrameKey, learnedIr.OneFrameKey) /\ ~PlayFrame(data)
\* the step is a dispatch of the frame in receivedData' in normal operation
Dispatches(kind) == isr' = "INT0" /\ dispatch' = kind /\ Normal
PowersOfTwo == {2 ^ i : i \in 0..15}
Min(a, b) == IF a < b THEN a ELSE b

(***************************************************************************)
(* C1: once startRunWithMetering has run, the start relay is on in every   *)
(* state until stopRun runs, whatever frames and compare interrupts occur. *)
(***************************************************************************)
C1_StartHeldUntilStop ==
    runOpen => pin[startPin] = HIGH

(***************************************************************************)
(* C2: between handlers the lightmeter relay is on exactly when            *)
(* startRunWithMetering has run more recently than stopRun.                *)
(***************************************************************************)
C2_LightmeterIsRunState ==
    (pin[lightmeterPin] = HIGH) <=> runOpen

(***************************************************************************)
(* C3: in normal operation a first (non-repeat) Play frame runs            *)
(* startRunWithMetering when the lightmeter relay is off and stopRun when  *)
(* it is on, and nothing else but the confirming flash; a repeated Play    *)
(* frame runs neither.                                                     *)
(***************************************************************************)
C3_PlayToggles ==
    [][ /\ (Dispatches("frame") /\ PlayFrame(receivedData'))
            => ops' = IF pin[lightmeterPin] = LOW
                      THEN <<"startRunWithMetering", "blinkLED">>
                      ELSE <<"stopRun", "blinkLED">>
        /\ (Dispatches("repeat") /\ PlayFrame(receivedData'))
            => ops' = <<>> /\ pin' = pin
      ]_vars

C3_Witness ==
    /\ isr = "INT0" /\ dispatch = "frame" /\ PlayFrame(receivedData)
    /\ ops = <<"stopRun", "blinkLED">>
    /\ pin[lightmeterPin] = LOW

(***************************************************************************)
(* C4: a first SingleFrame key runs meterOnce then singleFrame in mode     *)
(* 1ST_SINGLESHOT and singleFrame alone otherwise; meterOnce leaves the    *)
(* mode SUB_SINGLESHOT and only stopRun sets it back, so meterOnce runs at *)
(* most once between two stopRun; the compare interrupt never runs         *)
(* meterOnce and never changes the mode.                                   *)
(***************************************************************************)
C4_MeterOnceFirstShot ==
    [][ /\ (Dispatches("frame") /\ OneFrameFrame(receivedData'))
            => ops' = IF lmMode = LM_MODE_1ST_SINGLESHOT
                      THEN <<"meterOnce", "singleFrame", "blinkLED">>
                      ELSE <<"singleFrame", "blinkLED">>
        /\ (\E i \in 1..Len(ops') : ops'[i] = "meterOnce")
            => lmMode = LM_MODE_1ST_SINGLESHOT /\ lmMode' = LM_MODE_SUB_SINGLESHOT
        /\ (lmMode = LM_MODE_SUB_SINGLESHOT /\ lmMode' # lmMode)
            => lmMode' = LM_MODE_1ST_SINGLESHOT /\ \E i \in 1..Len(ops') : ops'[i] = "stopRun"
        /\ metersSinceStop' <= 1
        /\ isr' = "TIMER1_COMPA"
            => lmMode' = lmMode /\ \A i \in 1..Len(ops') : ops'[i] # "meterOnce"
      ]_vars

C4_Witness ==
    /\ isr = "INT0" /\ dispatch = "frame" /\ OneFrameFrame(receivedData)
    /\ ops = <<"singleFrame", "blinkLED">>
    /\ metersSinceStop = 1
    /\ lmMode = LM_MODE_SUB_SINGLESHOT

(***************************************************************************)
(* C5: after any sequence of first Faster, Slower, DoubleSpeed and         *)
(* HalfSpeed commands the staged step is within 1..255, the postscaler is  *)
(* at least 1, and the staged step is at least 11 whenever the postscaler  *)
(* is at most 4.                                                           *)
(***************************************************************************)
C5_StagedStepInRange ==
    /\ newIntervalStep \in 1..255
    /\ postscaler >= 1
    /\ postscaler <= 4 => newIntervalStep >= 11

(***************************************************************************)
(* C6: at the end of every compare interrupt, OCR1C and OCR1A are at least *)
(* 11 if the postscaler is at most 4.                                      *)
(***************************************************************************)
C6_CompareAboveFloor ==
    (isr = "TIMER1_COMPA" /\ postscaler <= 4) => (OCR1C >= 11 /\ OCR1A >= 11)

(***************************************************************************)
(* C7: HalfSpeed sets the postscaler to min(32768, 2 * postscaler): it     *)
(* stays a power of two up to 32768 and never gets smaller.                *)
(***************************************************************************)
C7_HalfSpeedDoubles ==
    [][ (isr' = "INT0" /\ cmd' = "HalfSpeed")
            => /\ postscaler' = Min(32768, 2 * postscaler)
               /\ postscaler' \in PowersOfTwo
               /\ postscaler' >= postscaler
      ]_vars

(***************************************************************************)
(* C8: while the postscaler P is not changed, singleFrame runs on exactly  *)
(* one of every P compare interrupts in a row, so never P of them in a row *)
(* pass without it.                                                        *)
(***************************************************************************)
C8_OneFrameEveryP ==
    idleTicks < postscaler

(***************************************************************************)
(* C9 as stated: a first IntervalToggle command flips the interrupt enable *)
(* bit and changes nothing else, no pin included.                          *)
(***************************************************************************)
C9_ToggleChangesOnlyEnable ==
    [][ (isr' = "INT0" /\ dispatch' = "frame" /\ cmd' = "IntervalToggle")
            => /\ OCIE1A' = ~OCIE1A
               /\ UNCHANGED <<divider, postscaler, oldIntervalStep, newIntervalStep,
                              OCR1C, OCR1A, lmMode, aluRemote, learnedIr, eeprom>>
               /\ pin' = pin
      ]_vars

(***************************************************************************)
(* C9 amended: a first IntervalToggle command flips the interrupt enable   *)
(* bit (so two in a row restore it) and leaves divider, postscaler, both   *)
(* steps, the compare registers, the lightmeter, hold and start relays,    *)
(* the lightmeter mode, the latch, the learned profile and the stored      *)
(* record unchanged; pin 1, shared by the load relay and the indicator, is *)
(* pulsed by the confirming flash and is low afterwards.                   *)
(***************************************************************************)
C9_ToggleKeepsPhase ==
    [][ (isr' = "INT0" /\ dispatch' = "frame" /\ cmd' = "IntervalToggle")
            => /\ OCIE1A' = ~OCIE1A
               /\ UNCHANGED <<divider, postscaler, oldIntervalStep, newIntervalStep,
                              OCR1C, OCR1A, lmMode, aluRemote, learnedIr, eeprom>>
               /\ pin' = [pin EXCEPT ![ledPin] = LOW]
               /\ writes' = <<<<ledPin, HIGH>>, <<ledPin, LOW>>>>
      ]_vars

C9_Witness ==
    /\ isr = "INT0" /\ dispatch = "frame" /\ cmd = "IntervalToggle"
    /\ ~OCIE1A
    /\ divider = 1

(***************************************************************************)
(* C10: whenever the compare interrupt has run since the last Faster,      *)
(* Slower or DoubleSpeed command, the compare register holds the staged    *)
(* step.                                                                   *)
(***************************************************************************)
C10_StagedStepApplied ==
    stage = "applied" => (OCR1C = newIntervalStep /\ OCR1A = newIntervalStep)

(***************************************************************************)
(* C11: round trip of a learned profile.  When a learn session has stored  *)
(* its record and setup has loaded it again, a first frame from the stored *)
(* address carrying the stored Play code runs startRunWithMetering if the  *)
(* lightmeter relay is off and stopRun if it is on.                        *)
(***************************************************************************)
C11_LearnedPlayRoundTrip ==
    [][ ( /\ rev = "latest"
          /\ session = "reloaded"
          /\ Dispatches("frame")
          /\ Address(receivedData') = ToUInt16(eeprom.RcCode)
          /\ CommandByte(receivedData') = eeprom.PlayKey )
            => ops' = IF pin[lightmeterPin] = LOW
                      THEN <<"startRunWithMetering", "blinkLED">>
                      ELSE <<"stopRun", "blinkLED">>
      ]_vars

\* the profile that setup reads from the stored record e
Loaded(e) ==
    [ RcCode |-> ToUInt16(e.RcCode), PlayKey |-> e.PlayKey, OneFrameKey |-> e.OneFrameKey,
      IntervalKey |-> e.IntervalKey, FasterKey |-> e.FasterKey, SlowerKey |-> e.SlowerKey,
      DoubleSpeedKey |-> e.DoubleSpeedKey, HalfSpeedKey |-> e.HalfSpeedKey ]
\* the step fills the seventh slot of a learn session with the frame's command byte
FillsSeventh ==
    /\ isr' = "INT0"
    /\ learnMode
    /\ learnedIr.DoubleSpeedKey # Unfilled
    /\ learnedIr.HalfSpeedKey = Unfilled
    /\ learnedIr' = [learnedIr EXCEPT !.HalfSpeedKey = CommandByte(receivedData')]

(***************************************************************************)
(* C12: the stored record changes only in the step that fills the seventh  *)
(* slot of a learn session, and that step stores the captured address and  *)
(* the seven collected keys; every other step, a power cycle in the middle *)
(* of a session included, leaves the record as it was, and setup loads the *)
(* profile from it.                                                        *)
(***************************************************************************)
C12_RecordWrittenWhenComplete ==
    [][ /\ eeprom' # eeprom => FillsSeventh
        /\ FillsSeventh => Loaded(eeprom') = learnedIr'
        /\ isr' = "setup" => (eeprom' = eeprom /\ learnedIr' = Loaded(eeprom))
      ]_vars

C12_Witness ==
    /\ cmd = "learnDone"
    /\ session = "stored"
    /\ Loaded(eeprom) = [ RcCode |-> appleIrRcCode, PlayKey |-> 10, OneFrameKey |-> 94,
                          IntervalKey |-> 94, FasterKey |-> 94, SlowerKey |-> 94,
                          DoubleSpeedKey |-> 94, HalfSpeedKey |-> 94 ]

\* the profile l with key in its first unfilled slot, in the order of the source
FillNext(l, key) ==
    IF l.PlayKey = Unfilled THEN [l EXCEPT !.PlayKey = key]
    ELSE IF l.OneFrameKey = Unfilled THEN [l EXCEPT !.OneFrameKey = key]
    ELSE IF l.IntervalKey = Unfilled THEN [l EXCEPT !.IntervalKey = key]
    ELSE IF l.FasterKey = Unfilled THEN [l EXCEPT !.FasterKey = key]
    ELSE IF l.SlowerKey = Unfilled THEN [l EXCEPT !.SlowerKey = key]
    ELSE IF l.DoubleSpeedKey = Unfilled THEN [l EXCEPT !.DoubleSpeedKey = key]
    ELSE [l EXCEPT !.HalfSpeedKey = key]
\* the slots of l in learning order, and: the filled ones come first
Slots(l) ==
    <<l.PlayKey, l.OneFrameKey, l.IntervalKey, l.FasterKey, l.SlowerKey,
      l.DoubleSpeedKey, l.HalfSpeedKey>>
FilledPrefix(l) ==
    \A i \in 1..6 : Slots(l)[i] = Unfilled => Slots(l)[i + 1] = Unfilled
\* the step dispatches a first, usable frame from the captured address
FromCaptured ==
    /\ dispatch' = "frame"
    /\ Usable(receivedData')
    /\ Address(receivedData') = learnedIr.RcCode

(***************************************************************************)
(* C13: in a learn session a frame fills a slot only if it is a first      *)
(* frame from the captured address; such a frame fills exactly the first   *)
(* unfilled slot in the order Play, SingleFrame, IntervalToggle, Faster,   *)
(* Slower, DoubleSpeed, HalfSpeed, so the filled slots are a prefix of     *)
(* that order; any other frame, a repeat included, leaves the slots, the   *)
(* session flag and the stored record alone; the session ends exactly when *)
(* the seventh slot is filled.                                             *)
(***************************************************************************)
C13_SlotsFillInOrder ==
    [][ (learnMode /\ isr' = "INT0")
            => /\ FromCaptured
                    => learnedIr' = FillNext(learnedIr, CommandByte(receivedData'))
               /\ ~FromCaptured => UNCHANGED <<learnedIr, learnMode, eeprom>>
               /\ learnMode' => (FilledPrefix(learnedIr') /\ learnedIr'.HalfSpeedKey = Unfilled)
               /\ ~learnMode' => FillsSeventh
      ]_vars

\* a profile with the captured address and no key yet
Cleared(addr) ==
    [ RcCode |-> addr, PlayKey |-> Unfilled, OneFrameKey |-> Unfilled,
      IntervalKey |-> Unfilled, FasterKey |-> Unfilled, SlowerKey |-> Unfilled,
      DoubleSpeedKey |-> Unfilled, HalfSpeedKey |-> Unfilled ]

(***************************************************************************)
(* C14: a usable first frame dispatched while the boot window is open and  *)
(* no learn session runs starts a session: the low 16 bits of the frame    *)
(* become the captured address, the seven slots become unfilled, the learn *)
(* flag is set, and nothing runs but the double flash: no relay sequence,  *)
(* no change of the intervalometer, of a relay or of the stored record.    *)
(***************************************************************************)
C14_BootFrameStartsSession ==
    [][ ( /\ justBooted /\ ~learnMode
          /\ isr' = "INT0" /\ dispatch' = "frame" /\ Usable(receivedData') )
            => /\ learnMode'
               /\ learnedIr' = Cleared(Address(receivedData'))
               /\ ops' = <<"blinkLEDtwice">>
               /\ pin' = [pin EXCEPT ![ledPin] = LOW]
               /\ UNCHANGED <<OCIE1A, divider, postscaler, oldIntervalStep,
                              newIntervalStep, OCR1C, OCR1A, lmMode, eeprom, justBooted>>
      ]_vars

C14_Witness ==
    /\ cmd = "learnStart" /\ dispatch = "frame"
    /\ justBooted /\ learnMode
    /\ eeprom = TrainedRecord
    /\ learnedIr = Cleared(appleIrRcCode)

(***************************************************************************)
(* C15: when no frame is dispatched in the boot window, loop() eventually  *)
(* clears justBooted with no learn session started (a session starts only *)
(* in a dispatch with the window open); justBooted, once false, stays      *)
(* false until setup runs again; and in normal operation no step but a     *)
(* power cycle starts a session or changes the learned profile or the      *)
(* stored record.                                                          *)
(***************************************************************************)
C15_BootWindowCloses ==
    /\ (justBooted /\ ~learnMode)
          ~> \/ ~justBooted /\ ~learnMode
             \/ justBooted /\ isr = "INT0" /\ dispatch # "none"
    /\ [][ /\ (~learnMode /\ learnMode')
                => (justBooted /\ isr' = "INT0" /\ dispatch' # "none")
           /\ (~justBooted /\ justBooted') => isr' = "setup"
           /\ (Normal /\ isr' # "setup")
                => (~justBooted' /\ ~learnMode' /\ UNCHANGED <<learnedIr, eeprom>>)
         ]_vars

C15_Witness ==
    /\ ~justBooted /\ ~learnMode
    /\ session = "none"
    /\ isr = "INT0" /\ dispatch = "frame" /\ cmd = "Play"
    /\ learnedIr = Loaded(eeprom)

\* the key codes of the default profile and of a learned profile l
DefaultKeys ==
    { appleIrPlayKey, appleIrOneFrameKey, appleIrIntervalKey, appleIrFasterKey,
      appleIrSlowerKey, appleIrDoubleSpeedKey, appleIrHalfSpeedKey, appleIrWhitePlayKey }
LearnedKeys(l) ==
    { l.PlayKey, l.OneFrameKey, l.IntervalKey, l.FasterKey, l.SlowerKey,
      l.DoubleSpeedKey, l.HalfSpeedKey }
\* the key of the frame is not mapped in the profile its address selects
Unmapped(data) ==
    IF Address(data) = appleIrRcCode
    THEN ShiftMask(data, 17, 127) \notin DefaultKeys
    ELSE CommandByte(data) \notin LearnedKeys(learnedIr)
\* the step runs no sequence, not even the flash, and changes no pin and nothing
\* of the intervalometer and the run state
NoCommand ==
    /\ ops' = <<>>
    /\ writes' = <<>>
    /\ UNCHANGED <<pin, OCIE1A, divider, postscaler, oldIntervalStep, newIntervalStep,
                   OCR1C, OCR1A, lmMode>>

(***************************************************************************)
(* C16: in normal operation a first frame from a known address is looked   *)
(* up in one profile only, the default one for the default address and the *)
(* learned one for the learned address; when its key is not mapped in that *)
(* profile, no relay sequence runs, the intervalometer does not change and *)
(* the flash is suppressed.                                                *)
(***************************************************************************)
C16_OneProfilePerFrame ==
    [][ ( /\ rev = "latest"
          /\ Dispatches("frame")
          /\ Usable(receivedData') /\ Known(receivedData')
          /\ Unmapped(receivedData') )
            => NoCommand
      ]_vars

\* a frame of the Apple Remote with the given key
FromApple(data, key) ==
    Usable(data) /\ Address(data) = appleIrRcCode /\ ShiftMask(data, 17, 127) = key

(***************************************************************************)
(* C17: the latch aluRemote is false after setup, is true after a first    *)
(* Play or SingleFrame (centre) key of the Apple Remote, and once true     *)
(* stays true until setup runs again; while it is true, a WhitePlay frame  *)
(* runs neither startRunWithMetering nor stopRun.                          *)
(***************************************************************************)
C17_LatchIsPermanent ==
    [][ /\ isr' = "setup" => ~aluRemote'
        /\ ( /\ Dispatches("frame")
             /\ \/ FromApple(receivedData', appleIrPlayKey)
                \/ FromApple(receivedData', appleIrOneFrameKey) )
                => aluRemote'
        /\ (aluRemote /\ ~aluRemote') => isr' = "setup"
        /\ ( /\ aluRemote
             /\ Dispatches("frame")
             /\ FromApple(receivedData', appleIrWhitePlayKey) )
                => \A i \in 1..Len(ops') :
                        ops'[i] \notin {"startRunWithMetering", "stopRun"}
      ]_vars

(***************************************************************************)
(* C18: in normal operation a first, usable frame whose address is neither *)
(* the learned nor the default one toggles the run whatever its command    *)
(* byte: startRunWithMetering when the lightmeter relay is off, stopRun    *)
(* when it is on, each between two flashes; it runs no singleFrame and     *)
(* changes nothing of the intervalometer.                                  *)
(***************************************************************************)
C18_UnknownRemoteToggles ==
    [][ ( /\ Dispatches("frame")
          /\ Usable(receivedData') /\ ~Known(receivedData') )
            => /\ ops' = IF pin[lightmeterPin] = LOW
                         THEN <<"blinkLED", "startRunWithMetering", "blinkLED">>
                         ELSE <<"blinkLED", "stopRun", "blinkLED">>
               /\ UNCHANGED <<OCIE1A, divider, postscaler, oldIntervalStep,
                              newIntervalStep, OCR1C, OCR1A>>
      ]_vars

C18_Witness ==
    /\ isr = "INT0" /\ dispatch = "frame"
    /\ learnedIr.RcCode = 65535
    /\ Address(receivedData) = 17185 /\ CommandByte(receivedData) = 17
    /\ ops = <<"blinkLED", "stopRun", "blinkLED">>
    /\ pin[lightmeterPin] = LOW

(***************************************************************************)
(* C19: relay and indicator sequences are never interleaved: while one of  *)
(* them is between its first and its last pin write no other one begins,   *)
(* whether it is issued by the edge handler, the compare handler or the    *)
(* boot window check of loop().  The handlers run to completion, so the    *)
(* sequence that can be open when another begins is the one loop() issues. *)
(***************************************************************************)
\* blinkLEDtwice of loop() has made its first pin write and not yet its last
InSequence == loopPc \in {"blink1", "blink2", "blink3"}
\* a handler other than loop() runs a relay or indicator sequence in this step
BeginsSequence == isr' \in {"INT0", "TIMER1"} /\ ops' # <<>>

C19_SequencesNeverInterleave ==
    [][InSequence => ~BeginsSequence]_vars

(***************************************************************************)
(* C20: while the decoder waits for a leader (irBits = 32), an edge found  *)
(* 194 to 228 ticks after the last one with no overflow clears the receive *)
(* buffer to 0 and sets the bit index to 0; it dispatches nothing, runs no *)
(* sequence and changes nothing else, in boot window, learn session, run   *)
(* and interval shooting alike.                                            *)
(***************************************************************************)
C20_LeaderClearsBuffer ==
    [][ \A timeStamp \in LeaderWindow :
          (irBits = 32 /\ EdgeAt(timeStamp, 0))
            => /\ receivedData' = Long(0, 0) /\ irBits' = 0
               /\ dispatch' = "none" /\ cmd' = "none" /\ ops' = <<>> /\ writes' = <<>>
               /\ UNCHANGED <<rev, pin, oldIntervalStep, newIntervalStep, postscaler,
                              divider, OCR1C, OCR1A, OCIE1A, lmMode, blinkFlag, aluRemote,
                              justBooted, learnMode, learnedIr, eeprom, runOpen>>
      ]_vars

\* a leader during a run with interval shooting enabled, after a frame has left
\* its bits in the buffer
C20_Witness ==
    /\ isr = "INT0" /\ irBits = 0 /\ receivedData = Long(0, 0)
    /\ runOpen /\ OCIE1A /\ ~justBooted

(***************************************************************************)
(* C21: while the decoder waits for a leader, an edge found 159 to 193     *)
(* ticks after the last one with no overflow dispatches with Repeat = 1    *)
(* the frame completed last and leaves the buffer and the bit index as     *)
(* they are; the buffer a repeat is dispatched with is never one that was  *)
(* received in part or never completed.  Every frame the transmitter       *)
(* completes here is one of EdgeFrames.                                    *)
(***************************************************************************)
RepeatWindow == 159..193

C21_RepeatCarriesCompletedFrame ==
    [][ \A timeStamp \in RepeatWindow :
          (irBits = 32 /\ EdgeAt(timeStamp, 0))
            => /\ dispatch' = "repeat"
               /\ receivedData' = receivedData /\ irBits' = 32
               /\ receivedData' \in EdgeFrames
      ]_vars

(***************************************************************************)
(* C22: while the decoder receives bits (irBits in 0..31), an edge found   *)
(* more than 44 ticks after the last one, or with the overflow flag set,   *)
(* returns the decoder to waiting for a leader (irBits = 32); it           *)
(* dispatches no frame and changes neither a pin nor the intervalometer,   *)
(* the learn session or the profile.                                       *)
(***************************************************************************)
C22_BrokenFrameIsDropped ==
    [][ \A timeStamp \in EdgeTicks, overFlow \in OverflowFlags :
          ( /\ irBits \in 0..31
            /\ timeStamp > 44 \/ overFlow # 0
            /\ EdgeAt(timeStamp, overFlow) )
            => /\ irBits' = 32
               /\ dispatch' = "none" /\ cmd' = "none" /\ ops' = <<>> /\ writes' = <<>>
               /\ UNCHANGED <<pin, oldIntervalStep, newIntervalStep, postscaler, divider,
                              OCR1C, OCR1A, OCIE1A, lmMode, blinkFlag, aluRemote,
                              justBooted, learnMode, learnedIr, eeprom, runOpen>>
      ]_vars

\* a frame broken off after its address, during a run with interval shooting
C22_Witness ==
    /\ isr = "INT0" /\ irBits = 32 /\ dispatch = "none"
    /\ receivedData = Long(appleIrRcCode, 0)
    /\ runOpen /\ OCIE1A /\ ~justBooted

(***************************************************************************)
(* C23: after a leader, 32 data edges each found at most 44 ticks after    *)
(* the last one with no overflow give exactly one dispatch, with           *)
(* Repeat = 0, on the 32nd of them: the edge at bit index i sets bit i of  *)
(* the buffer to 1 when its gap is above 26 ticks and leaves it 0          *)
(* otherwise, keeps the other bits and moves the index to i + 1; the edges *)
(* at index 0..30 dispatch nothing, the edge at index 31 dispatches the    *)
(* buffer and leaves the decoder waiting for a leader.                     *)
(***************************************************************************)
\* gaps of a data bit
DataTicks == {t \in EdgeTicks : t <= 44}
\* the bits not yet received are 0
HighBitsClear ==
    irBits \in 0..31 => \A i \in irBits..31 : BitAt(receivedData, i) = 0

C23_FrameDispatchedOnce ==
    /\ []HighBitsClear
    /\ [][ \A timeStamp \in DataTicks :
             (irBits \in 0..31 /\ EdgeAt(timeStamp, 0))
               => /\ \A i \in 0..31 :
                        BitAt(receivedData', i) =
                            IF i = irBits THEN (IF timeStamp > 26 THEN 1 ELSE 0)
                            ELSE BitAt(receivedData, i)
                  /\ irBits' = irBits + 1
                  /\ dispatch' = IF irBits = 31 THEN "frame" ELSE "none"
                  /\ irBits < 31 => (ops' = <<>> /\ writes' = <<>> /\ cmd' = "none")
         ]_vars

\* the 32nd data edge of the Play frame in normal operation
C23_Witness ==
    /\ isr = "INT0" /\ dispatch = "frame" /\ irBits = 32
    /\ receivedData = ApplePlay /\ cmd = "Play"

(***************************************************************************)
(* C24: the decoder has no stuck state.  The bit index is always within    *)
(* 0..32; an edge of any timing found while bits are received moves the    *)
(* index one up or to 32, so that the decoder waits for a leader again     *)
(* after at most 32 edges; and a leader edge found while it waits starts a *)
(* frame (index 0) in boot window, learn session, normal operation, run    *)
(* and interval shooting alike.                                            *)
(***************************************************************************)
\* the bit index after an edge of the given timing in this state
IndexAfter(timeStamp, overFlow, ub) == INT0_vect(State, timeStamp, overFlow, ub).irBits

C24_DecoderNeverStuck ==
    /\ irBits \in 0..32
    /\ \A timeStamp \in EdgeTicks \cup LeaderWindow, overFlow \in OverflowFlags,
          ub \in Overflows :
          LET n == IndexAfter(timeStamp, overFlow, ub)
          IN  /\ irBits < 32 => n \in {irBits + 1, 32}
              /\ (irBits = 32 /\ timeStamp \in LeaderWindow /\ overFlow = 0) => n = 0
              /\ irBits = 32 => n \in {0, 32}

\* a leader edge in a learn session
C24_Witness ==
    /\ isr = "INT0" /\ irBits = 0 /\ learnMode /\ learnedIr.PlayKey # Unfilled

(***************************************************************************)
(* C25: a dispatched frame whose command byte is 0x00 or 0xFF is dropped   *)
(* in boot window, learn session and normal operation alike: it starts no  *)
(* learn session, fills no slot, runs no relay or indicator sequence and   *)
(* changes neither a pin nor the intervalometer.                           *)
(***************************************************************************)
C25_GarbageIsDropped ==
    [][ (isr' = "INT0" /\ dispatch' # "none" /\ ~Usable(receivedData'))
            => /\ NoCommand
               /\ UNCHANGED <<learnMode, learnedIr, eeprom, aluRemote, justBooted>>
      ]_vars

(***************************************************************************)
(* C26: in normal operation every matched first frame (Play, SingleFrame,  *)
(* IntervalToggle, Faster, Slower, DoubleSpeed, HalfSpeed, WhitePlay and   *)
(* the toggle of an unknown transmitter) runs blinkLED exactly once, after *)
(* the action of the command; and blinkFlag is true at the end of every    *)
(* dispatch.                                                               *)
(***************************************************************************)
Matched ==
    { "Play", "SingleFrame", "IntervalToggle", "Faster", "Slower", "DoubleSpeed",
      "HalfSpeed", "WhitePlay", "unknownToggle" }
\* the number of blinkLED calls in a log of calls
Flashes(o) == Cardinality({i \in 1..Len(o) : o[i] = "blinkLED"})

C26_OneFlashAfterCommand ==
    [][ /\ (Dispatches("frame") /\ cmd' \in Matched)
            => (Flashes(ops') = 1 /\ ops'[Len(ops')] = "blinkLED")
        /\ (isr' = "INT0" /\ dispatch' # "none") => blinkFlag'
      ]_vars

(***************************************************************************)
(* C27: in normal operation a frame dispatched with Repeat = 1 changes     *)
(* nothing that can be observed: no pin is written, the indicator          *)
(* included, and the intervalometer, lmMode, the latch aluRemote and the   *)
(* learned profile stay as they are, whether the address is the learned,   *)
(* the default or an unknown one.                                          *)
(***************************************************************************)
C27_RepeatChangesNothing ==
    [][ Dispatches("repeat")
            => (NoCommand /\ UNCHANGED <<aluRemote, learnedIr, eeprom>>)
      ]_vars

(***************************************************************************)
(* C28: in every state between two handler runs the divider is at least 0  *)
(* and below the postscaler, also right after a DoubleSpeed or HalfSpeed   *)
(* command has changed the postscaler.                                     *)
(***************************************************************************)
C28_DividerBelowPostscaler ==
    0 <= divider /\ divider < postscaler

(***************************************************************************)
(* C29: while a learn session runs no camera action occurs: from the step  *)
(* that starts the session to the step that ends it no handler, edge or    *)
(* compare, runs startRunWithMetering, stopRun, meterOnce or singleFrame,  *)
(* and the lightmeter, hold and start relay, the intervalometer and lmMode *)
(* stay as they were.                                                      *)
(***************************************************************************)
CameraActions == {"startRunWithMetering", "stopRun", "meterOnce", "singleFrame"}

C29_NoCameraActionInSession ==
    [][ (learnMode \/ learnMode')
            => /\ \A i \in 1..Len(ops') : ops'[i] \notin CameraActions
               /\ isr' # "TIMER1_COMPA"
               /\ pin'[lightmeterPin] = pin[lightmeterPin]
               /\ pin'[holdPin] = pin[holdPin]
               /\ pin'[startPin] = pin[startPin]
               /\ UNCHANGED <<OCIE1A, divider, postscaler, oldIntervalStep,
                              newIntervalStep, OCR1C, OCR1A, lmMode>>
      ]_vars

\* the Play key, which starts a run in normal operation, learned in a session
\* after a power cycle
C29_Witness ==
    /\ isr = "INT0" /\ learnMode /\ cmd = "learnKey" /\ receivedData = ApplePlay
    /\ boots = 1 /\ ~OCIE1A /\ pin[startPin] = LOW

(***************************************************************************)
(* C30: the start relay is switched on only right after a load pulse of    *)
(* the same sequence: in startRunWithMetering and in singleFrame the write *)
(* start = HIGH follows load = HIGH and load = LOW with no write between   *)
(* load = LOW and start = HIGH; and stopRun releases start before hold and *)
(* hold before lightmeter.  This holds of each sequence by itself and of   *)
(* the pin writes of every handler run.                                    *)
(***************************************************************************)
\* in the log w of pin writes every start = HIGH comes right after a load pulse
LoadedStart(w) ==
    \A i \in 1..Len(w) :
        w[i] = <<startPin, HIGH>>
            => (i >= 3 /\ w[i - 1] = <<loadPin, LOW>> /\ w[i - 2] = <<loadPin, HIGH>>)
\* in the log w every release of hold comes after a release of start, and is
\* followed by the release of lightmeter
ReleasedInOrder(w) ==
    \A j \in 1..Len(w) :
        w[j] = <<holdPin, LOW>>
            => /\ \E i \in 1..(j - 1) : w[i] = <<startPin, LOW>>
               /\ \E k \in (j + 1)..Len(w) : w[k] = <<lightmeterPin, LOW>>
\* the pin writes of a sequence run by itself in this state
WritesOf(t) == t.writes
\* the writes that occur in a log
Range(w) == {w[i] : i \in 1..Len(w)}

C30_StartFollowsLoad ==
    /\ LoadedStart(writes) /\ ReleasedInOrder(writes)
    /\ LoadedStart(WritesOf(startRunWithMetering(Enter(State))))
    /\ LoadedStart(WritesOf(singleFrame(Enter(State))))
    /\ ReleasedInOrder(WritesOf(stopRun(Enter(State))))
    /\ <<startPin, HIGH>> \in Range(WritesOf(startRunWithMetering(Enter(State))))
    /\ <<startPin, HIGH>> \in Range(WritesOf(singleFrame(Enter(State))))
    /\ <<holdPin, LOW>> \in Range(WritesOf(stopRun(Enter(State))))

\* an exposure of the intervalometer during a run
C30_Witness ==
    /\ isr = "TIMER1_COMPA" /\ ops = <<"singleFrame">> /\ runOpen
    /\ <<startPin, HIGH>> \in Range(writes)

====
